---- MODULE Spec2Model ----
(***************************************************************************)
(* A model of the rijckit lexer: the lexeme functions nu, alpha, tau, pi,  *)
(* the classifier, dispatch and lex of lex.c, and the refill step of the   *)
(* harness in test.c.  Bytes are the numbers 0..255; the backing storage   *)
(* back_buf is a function from 0..BackSz-1 to bytes, the window start buf  *)
(* is kept as the index off = buf - back_buf.                              *)
(***************************************************************************)
EXTENDS Integers, Sequences, FiniteSets, TLC

VARIABLES back_buf, off, sz, tok, s, pc, input, pos, split, consumed, pre, hi, ub, padded,
          recalls

vars == <<back_buf, off, sz, tok, s, pc, input, pos, split, consumed, pre, hi, ub, padded,
          recalls>>

(* ---- bounds ---- *)
BackSz == 7
MaxInput == 6
MaxConsumed == 12
MaxRecalls == 2

(* ---- ASCII codes used by lex.c ---- *)
NUL == 0
TAB == 9
LF == 10
CR == 13
SPACE == 32
BANG == 33
DQUOTE == 34
HASH == 35
PERCENT == 37
AMP == 38
SQUOTE == 39
LPAREN == 40
RPAREN == 41
STAR == 42
PLUS == 43
COMMA == 44
MINUS == 45
DOT == 46
SLASH == 47
DIGIT0 == 48
DIGIT9 == 57
COLON == 58
SEMI == 59
LT == 60
EQ == 61
GT == 62
QUEST == 63
UPPER_A == 65
UPPER_Z == 90
(* '@', a byte of no class *)
AT == UPPER_A - 1
LBRACKET == 91
BACKSLASH == 92
RBRACKET == 93
CARET == 94
UNDERSCORE == 95
LOWER_A == 97
LOWER_Z == 122
LBRACE == 123
PIPE == 124
RBRACE == 125
TILDE == 126

Byte == 0..255
NULLPTR == 0 - 1

States == {"Success", "Fail", "Undecided", "End"}

Max2(a, b) == IF a >= b THEN a ELSE b

(* The result of a lexeme function: the State it returns, whether it wrote  *)
(* *tok and with which fields, the highest storage index it read, and       *)
(* whether it ran into __builtin_unreachable().                             *)
Res(state, type, buf, len, top) ==
  [state |-> state, written |-> TRUE, type |-> type, buf |-> buf, len |-> len,
   top |-> top, unreachable |-> FALSE]

(* ---- Lexeme: Number ---- *)
RECURSIVE nu_loop(_, _, _, _)
nu_loop(len, n, m, p) ==
  IF len < n
  THEN IF m[p + len] < DIGIT0 \/ m[p + len] > DIGIT9
       THEN Res("Success", "Number", p, len, p + len)
       ELSE nu_loop(len + 1, n, m, p)
  ELSE Res("Undecided", "Number", NULLPTR, 0, p + len - 1)

(* nu whose loop starts one byte late *)
nu_from2(n, m, p) == nu_loop(2, n, m, p)

nu(n, m, p) == nu_loop(1, n, m, p)

(* ---- Lexeme: Identifier & Whitespace ---- *)
is_alnum(c) ==
  \/ (c >= UPPER_A /\ c <= UPPER_Z)
  \/ (c >= LOWER_A /\ c <= LOWER_Z)
  \/ (c >= DIGIT0 /\ c <= DIGIT9)
  \/ c = UNDERSCORE

is_whitespace(c) == c = SPACE \/ c = TAB \/ c = LF \/ c = CR

check(type, c) == IF type = "Identifier" THEN is_alnum(c) ELSE is_whitespace(c)

RECURSIVE alpha_loop(_, _, _, _, _)
alpha_loop(len, n, m, p, type) ==
  IF len < n
  THEN IF ~check(type, m[p + len])
       THEN Res("Success", type, p, len, p + len)
       ELSE alpha_loop(len + 1, n, m, p, type)
  ELSE Res("Undecided", type, NULLPTR, 0, Max2(p + 3, p + len - 1))

(* alpha with the loop entered one byte late *)
alpha_from5(n, m, p, type) ==
  IF ~check(type, m[p + 1]) THEN Res("Success", type, p, 1, p + 1)
  ELSE IF ~check(type, m[p + 2]) THEN Res("Success", type, p, 2, p + 2)
  ELSE IF ~check(type, m[p + 3]) THEN Res("Success", type, p, 3, p + 3)
  ELSE alpha_loop(5, n, m, p, type)

alpha(n, m, p, type) ==
  IF ~check(type, m[p + 1]) THEN Res("Success", type, p, 1, p + 1)
  ELSE IF ~check(type, m[p + 2]) THEN Res("Success", type, p, 2, p + 2)
  ELSE IF ~check(type, m[p + 3]) THEN Res("Success", type, p, 3, p + 3)
  ELSE alpha_loop(4, n, m, p, type)

(* ---- Lexeme: String, Character & Pre-Processor Directive ---- *)
RECURSIVE tau_loop(_, _, _, _, _, _, _, _, _)
tau_loop(len, escape, top, n, m, p, type, plus, termn) ==
  IF len < n
  THEN IF ~escape
       THEN IF m[p + len] = termn
            THEN Res("Success", type, p, len + plus, Max2(top, p + len))
            ELSE tau_loop(len + 1, m[p + len] = BACKSLASH, Max2(top, p + len),
                          n, m, p, type, plus, termn)
       ELSE tau_loop(len + 1, FALSE, top, n, m, p, type, plus, termn)
  ELSE Res("Undecided", type, NULLPTR, 0, top)

(* tau whose fourth fast path takes one backslash for two *)
tau_fast4(n, m, p, type, plus, termn) ==
  LET b == m[p + 1]
      c == m[p + 2]
      d == m[p + 3]
  IN  IF b = termn THEN Res("Success", type, p, 1 + plus, p + 3)
      ELSE IF c = termn /\ b # BACKSLASH THEN Res("Success", type, p, 2 + plus, p + 3)
      ELSE IF d = termn /\ c # BACKSLASH THEN Res("Success", type, p, 3 + plus, p + 3)
      ELSE IF d = termn /\ c = BACKSLASH
           THEN Res("Success", type, p, 3 + plus, p + 3)
      ELSE tau_loop(1, FALSE, p + 3, n, m, p, type, plus, termn)

(* tau whose third fast path forgets the escape before the terminator *)
tau_noescape(n, m, p, type, plus, termn) ==
  LET b == m[p + 1]
      c == m[p + 2]
      d == m[p + 3]
  IN  IF b = termn THEN Res("Success", type, p, 1 + plus, p + 3)
      ELSE IF c = termn /\ b # BACKSLASH THEN Res("Success", type, p, 2 + plus, p + 3)
      ELSE IF d = termn THEN Res("Success", type, p, 3 + plus, p + 3)
      ELSE tau_loop(1, FALSE, p + 3, n, m, p, type, plus, termn)

tau(n, m, p, type, plus, termn) ==
  LET b == m[p + 1]
      c == m[p + 2]
      d == m[p + 3]
  IN  IF b = termn THEN Res("Success", type, p, 1 + plus, p + 3)
      ELSE IF c = termn /\ b # BACKSLASH THEN Res("Success", type, p, 2 + plus, p + 3)
      ELSE IF d = termn /\ c # BACKSLASH THEN Res("Success", type, p, 3 + plus, p + 3)
      ELSE IF d = termn /\ c = BACKSLASH /\ b = BACKSLASH
           THEN Res("Success", type, p, 3 + plus, p + 3)
      ELSE tau_loop(1, FALSE, p + 3, n, m, p, type, plus, termn)

(* ---- Lexeme: Punctuation ---- *)
B2N(x) == IF x THEN 1 ELSE 0

(* __builtin_unreachable(): the build may do anything from here on; the   *)
(* caller of the model draws the State that comes back.                    *)
Unreachable(top) ==
  [state |-> "Undecided", written |-> FALSE, type |-> "Undefined", buf |-> NULLPTR, len |-> 0,
   top |-> top, unreachable |-> TRUE]

(* pi whose case '-' does not fall through into the doubling check *)
pi_nofallthrough(n, m, p) ==
  LET a == m[p]
      b == m[p + 1]
      c == m[p + 2]
      P(len) == Res("Success", "Punctuation", p, len, p + 2)
      eq == P(1 + B2N(b = EQ))
      dbl == IF b = a THEN P(2 + B2N((a = LT \/ a = GT) /\ c = EQ)) ELSE eq
  IN  IF a = MINUS THEN (IF b = GT THEN P(2) ELSE eq)
      ELSE IF a \in {AMP, LT, GT, PIPE, PLUS} THEN dbl
      ELSE IF a \in {CARET, EQ, STAR, PERCENT, BANG} THEN eq
      ELSE IF a = QUEST THEN P(1 + B2N(b = COLON))
      ELSE IF a \in {LPAREN, RPAREN, LBRACKET, RBRACKET, DOT, LBRACE, RBRACE,
                     COLON, SEMI, COMMA, TILDE}
           THEN P(1 + 2 * B2N(a = DOT /\ b = DOT /\ c = DOT))
      ELSE IF a = SLASH
           THEN (IF b = SLASH
                 THEN tau(n - 2, m, p + 2, "Punctuation", 2, LF)
                 ELSE eq)
      ELSE Unreachable(p + 2)

pi(n, m, p) ==
  LET a == m[p]
      b == m[p + 1]
      c == m[p + 2]
      P(len) == Res("Success", "Punctuation", p, len, p + 2)
      eq == P(1 + B2N(b = EQ))
      dbl == IF b = a THEN P(2 + B2N((a = LT \/ a = GT) /\ c = EQ)) ELSE eq
  IN  IF a = MINUS THEN (IF b = GT THEN P(2) ELSE dbl)
      ELSE IF a \in {AMP, LT, GT, PIPE, PLUS} THEN dbl
      ELSE IF a \in {CARET, EQ, STAR, PERCENT, BANG} THEN eq
      ELSE IF a = QUEST THEN P(1 + B2N(b = COLON))
      ELSE IF a \in {LPAREN, RPAREN, LBRACKET, RBRACKET, DOT, LBRACE, RBRACE,
                     COLON, SEMI, COMMA, TILDE}
           THEN P(1 + 2 * B2N(a = DOT /\ b = DOT /\ c = DOT))
      ELSE IF a = SLASH
           THEN (IF b = SLASH
                 THEN tau(n - 2, m, p + 2, "Punctuation", 2, LF)
                 ELSE eq)
      ELSE Unreachable(p + 2)

(* ---- Classification ---- *)
classify(c) ==
  IF c = DQUOTE THEN "String"
  ELSE IF c = SQUOTE THEN "Character"
  ELSE IF c = HASH THEN "Directive"
  ELSE IF c >= DIGIT0 /\ c <= DIGIT9 THEN "Number"
  ELSE IF c \in {SPACE, TAB, LF, CR} THEN "Whitespace"
  ELSE IF (c >= UPPER_A /\ c <= UPPER_Z) \/ (c >= LOWER_A /\ c <= LOWER_Z)
          \/ c = UNDERSCORE THEN "Identifier"
  ELSE IF c \in {BANG, PERCENT, AMP} \/ (c >= LPAREN /\ c <= SLASH)
          \/ (c >= COLON /\ c <= QUEST) \/ (c >= LBRACKET /\ c <= CARET)
          \/ (c >= LBRACE /\ c <= TILDE) THEN "Punctuation"
  ELSE "Undefined"

(* ---- Dispatch ---- *)
NoTok(state, top) ==
  [state |-> state, written |-> FALSE, type |-> "Undefined", buf |-> NULLPTR, len |-> 0,
   top |-> top, unreachable |-> FALSE]

dispatch(n, m, p) ==
  IF n < 4 THEN Unreachable(NULLPTR)
  ELSE LET cls == classify(m[p])
       IN  CASE cls = "String" -> tau(n, m, p, "String", 1, DQUOTE)
             [] cls = "Character" -> tau(n, m, p, "Character", 1, SQUOTE)
             [] cls = "Directive" -> tau(n, m, p, "Directive", 0, LF)
             [] cls = "Number" -> nu(n, m, p)
             [] cls = "Whitespace" -> alpha(n, m, p, "Whitespace")
             [] cls = "Identifier" -> alpha(n, m, p, "Identifier")
             [] cls = "Punctuation" -> pi(n, m, p)
             [] OTHER -> NoTok(IF m[p] # NUL THEN "Fail" ELSE "End", p)

(* ---- Storage ---- *)
MemTop == 2 * BackSz + 8

(* The bytes a read at index i finds: the backing storage below BackSz, and *)
(* whatever lies behind it (g) above.                                       *)
Memory(g) == [i \in 0..MemTop |-> IF i < BackSz THEN back_buf[i] ELSE g]

(* a memmove that copies nothing *)
memmove_nop(mem, from, n) == mem

(* memmove(dst = back_buf, src = back_buf + from, n) *)
memmove(mem, from, n) ==
  [i \in 0..(BackSz - 1) |-> IF i < n /\ from + i < BackSz THEN mem[from + i] ELSE mem[i]]

GarbageBytes == {LF, LOWER_A}

(* What a call can find behind the storage: nothing is read there unless  *)
(* the window, or the four bytes every lexeme looks at and the two more of *)
(* a comment, reach the end of the storage.                                *)
Behind == IF off + Max2(sz, 6) > BackSz THEN GarbageBytes ELSE {LOWER_A}

(* ---- Lex ---- *)
(* the attempt made on three bytes already *)
attempt_from3(g) ==
  IF sz >= 3 THEN dispatch(sz, Memory(g), off)
  ELSE NoTok("Undecided", NULLPTR)

(* The classification attempt of lex: dispatch, on four bytes or more.     *)
attempt(g) ==
  IF sz >= 4 THEN dispatch(sz, Memory(g), off)
  ELSE NoTok("Undecided", NULLPTR)

(* lex moving the window on every State but Undecided *)
moves_notundecided(st) == st # "Undecided"

(* The State on which lex moves the window forward. *)
moves(st) == st = "Success"

(* lex: whatever State comes back from dispatch (any State when dispatch   *)
(* ran into __builtin_unreachable(), with the token storage left as it was) *)
(* is handled by the two ifs that follow the attempt.                       *)
lex(g) ==
  LET r == attempt(g)
      t == IF r.written THEN [type |-> r.type, buf |-> r.buf, len |-> r.len] ELSE tok
  IN  /\ tok' = t
      /\ pre' = [off |-> off, sz |-> sz, consumed |-> consumed, called |-> TRUE,
                 win |-> [i \in 0..(sz - 1) |-> Memory(g)[off + i]], tok |-> tok]
      /\ hi' = IF r.top = NULLPTR THEN NULLPTR ELSE r.top - off
      /\ ub' = r.unreachable
      /\ \E st \in (IF r.unreachable THEN States ELSE {r.state}) :
           /\ s' = st
           /\ IF st = "Undecided"
              THEN /\ back_buf' = memmove(back_buf, off, sz)
                   /\ off' = 0
                   /\ pc' = IF r.unreachable THEN "undefined" ELSE "refill"
                   /\ UNCHANGED <<sz, consumed>>
              ELSE IF moves(st)
              THEN /\ off' = off + t.len
                   /\ sz' = sz - t.len
                   /\ consumed' = consumed + t.len
                   /\ pc' = IF r.unreachable \/ t.len > sz THEN "undefined" ELSE "lex"
                   /\ UNCHANGED back_buf
              ELSE /\ pc' = IF r.unreachable THEN "undefined" ELSE "exit"
                   /\ UNCHANGED <<back_buf, off, sz, consumed>>

Lex ==
  /\ pc = "lex"
  /\ consumed <= MaxConsumed
  /\ \E g \in Behind : lex(g)
  /\ UNCHANGED <<input, pos, split, padded, recalls>>

(* The caller calls lex again after Fail or End, without a refill. *)
Relex ==
  /\ pc = "exit"
  /\ s \in {"Fail", "End"}
  /\ recalls < MaxRecalls
  /\ \E g \in Behind : lex(g)
  /\ recalls' = recalls + 1
  /\ UNCHANGED <<input, pos, split, padded>>

(* ---- Harness refill (case lexUndecided of print_tok) ---- *)
Min2(a, b) == IF a <= b THEN a ELSE b

(* read(0, &back_buf[at], room): the bytes of the current chunk that fit.  *)
read(room) ==
  LET avail == IF pos < split THEN split - pos ELSE Len(input) - pos
  IN  Min2(room, avail)

Refill ==
  /\ pc = "refill"
  /\ IF sz < BackSz
     THEN LET moved == memmove(back_buf, off, sz)
              rd == read(BackSz - sz)
              filled == [i \in 0..(BackSz - 1) |->
                           IF i >= sz /\ i < sz + rd THEN input[pos + (i - sz) + 1]
                           ELSE moved[i]]
          IN  /\ pos' = pos + rd
              /\ off' = 0
              /\ pc' = "lex"
              /\ IF sz + rd >= 4
                 THEN /\ sz' = sz + rd
                      /\ back_buf' = filled
                      /\ UNCHANGED padded
                 ELSE /\ sz' = sz + 4
                      /\ padded' = TRUE
                      /\ back_buf' = [i \in 0..(BackSz - 1) |->
                                        IF i >= sz + rd /\ i < 4 THEN NUL ELSE filled[i]]
     ELSE /\ pc' = "exit"
          /\ UNCHANGED <<back_buf, off, sz, pos, padded>>
  /\ UNCHANGED <<tok, s, input, split, consumed, pre, hi, ub, recalls>>

(* ---- The driver: an empty context over uninitialised storage ---- *)
(* The context starts with no filled byte: the first lex call returns      *)
(* Undecided and the refill delivers the first chunk.  The source hands    *)
(* out the input in two chunks, cut at split.                              *)
DriverBytes == {LOWER_A, SLASH, LF}

RECURSIVE SeqsUpTo(_, _)
SeqsUpTo(S, n) ==
  IF n = 0 THEN {<<>>}
  ELSE LET shorter == SeqsUpTo(S, n - 1)
       IN  shorter \cup {Append(q, x) : q \in {q2 \in shorter : Len(q2) = n - 1}, x \in S}

NoToken == [type |-> "Undefined", buf |-> NULLPTR, len |-> 0]
NoCall == [off |-> 0, sz |-> 0, consumed |-> 0, called |-> FALSE, win |-> <<>>,
           tok |-> NoToken]

Init ==
  /\ input \in SeqsUpTo(DriverBytes, MaxInput)
  /\ split \in 0..Len(input)
  /\ pos = 0
  /\ \E g \in GarbageBytes : back_buf = [i \in 0..(BackSz - 1) |-> g]
  /\ off = 0
  /\ sz = 0
  /\ tok = NoToken
  /\ s = "Undecided"
  /\ pc = "lex"
  /\ consumed = 0
  /\ pre = NoCall
  /\ hi = NULLPTR
  /\ ub = FALSE
  /\ padded = FALSE
  /\ recalls = 0

Next == Lex \/ Refill

Spec == Init /\ [][Next]_vars

FairSpec == Init /\ [][Next]_vars /\ WF_vars(Next)

(* ---- One call after another on a window the caller filled ---- *)
(* The windows: every first byte, followed by the bytes that decide the    *)
(* lexeme the first byte starts.                                           *)
TailBytes(a) ==
  CASE a = DQUOTE -> {DQUOTE, BACKSLASH, LOWER_A}
    [] a = SQUOTE -> {SQUOTE, BACKSLASH, LOWER_A}
    [] a = HASH -> {LF, BACKSLASH, LOWER_A}
    [] a = SLASH -> {LF, BACKSLASH, LOWER_A}
    [] a = LOWER_A -> {UNDERSCORE, DIGIT9, SPACE}
    [] a = UPPER_A -> {UPPER_A, AT, NUL}
    [] a = UNDERSCORE -> {UPPER_Z, DIGIT0, MINUS}
    [] a = SPACE -> {SPACE, LF, LOWER_A}
    [] a = TAB -> {TAB, CR, SLASH}
    [] a = DIGIT0 -> {DIGIT0, DIGIT9, LOWER_A}
    [] a = DIGIT9 -> {DIGIT0 + 1, SLASH, COLON}
    [] OTHER -> {LOWER_A}

SecondBytes(a) ==
  IF classify(a) = "Punctuation"
  THEN {a, EQ, GT, COLON, DOT, SLASH, LOWER_A}
  ELSE TailBytes(a)

ThirdBytes(a) ==
  IF classify(a) = "Punctuation" /\ a # SLASH
  THEN {EQ, DOT, LOWER_A}
  ELSE TailBytes(a)

MatchInit ==
  /\ \E a \in Byte :
       \E b \in SecondBytes(a), c \in ThirdBytes(a), t \in [3..(BackSz - 1) -> TailBytes(a)] :
            back_buf = [i \in 0..(BackSz - 1) |->
                          IF i = 0 THEN a ELSE IF i = 1 THEN b ELSE IF i = 2 THEN c ELSE t[i]]
  /\ sz \in 4..BackSz
  /\ off = 0
  /\ input = <<>>
  /\ split = 0
  /\ pos = 0
  /\ tok = NoToken
  /\ s = "Undecided"
  /\ pc = "lex"
  /\ consumed = 0
  /\ pre = NoCall
  /\ hi = NULLPTR
  /\ ub = FALSE
  /\ padded = FALSE
  /\ recalls = 0

MatchNext == Lex \/ Relex

MatchSpec == MatchInit /\ [][MatchNext]_vars

(* ======================================================================= *)
(* Properties                                                              *)
(* ======================================================================= *)
MinOf(S) == CHOOSE x \in S : \A y \in S : x <= y

(* The last lex call classified a window of at least four bytes. *)
Called4 == pre.called /\ pre.sz >= 4

(* The bytes of the window the last call saw. *)
W(i) == pre.win[i]
First == pre.win[0]

IdentStartBytes == (UPPER_A..UPPER_Z) \cup (LOWER_A..LOWER_Z) \cup {UNDERSCORE}
IdentBytes == IdentStartBytes \cup (DIGIT0..DIGIT9)
SpaceBytes == {SPACE, TAB, CR, LF}
PunctuationBytes ==
  {BANG, PERCENT, AMP} \cup (LPAREN..SLASH) \cup (COLON..QUEST)
    \cup (LBRACKET..CARET) \cup (LBRACE..TILDE)

(* The number of consecutive backslashes right before position p, counted  *)
(* no further down than position lo.                                       *)
BsRun(p, lo) == Cardinality({k \in 1..(p - lo) : \A j \in 1..k : W(p - j) = BACKSLASH})

(* The positions from lo on that hold termn after an even run of backslashes. *)
Ends(termn, lo) == {p \in lo..(pre.sz - 1) : W(p) = termn /\ BsRun(p, lo) % 2 = 0}

(* C1: every Success token starts at the window start of its call, and lex *)
(* moves the window start forward and the filled size down by exactly the  *)
(* token's length, so consecutive tokens tile the stream.                  *)
C1_TokensTileStream ==
  (pre.called /\ s = "Success") =>
    /\ tok.buf = pre.off
    /\ off = pre.off + tok.len
    /\ sz = pre.sz - tok.len
    /\ consumed = pre.consumed + tok.len

(* The run where the whole input is in the storage at once: the token that *)
(* starts at stream offset o.                                              *)
WholeMem == [i \in 0..MemTop |-> IF i < Len(input) THEN input[i + 1] ELSE NUL]
OneChunk(o) == dispatch(Len(input) - o, WholeMem, o)

(* C2: a token the chunked run emits at a stream offset is the token the   *)
(* one-chunk run decides at that offset (same category, same length),      *)
(* wherever the one-chunk run decides from the bytes of the input alone.   *)
C2_SplitEquivalence ==
  (pre.called /\ s = "Success" /\ ~padded /\ Len(input) - pre.consumed >= 4) =>
    LET r == OneChunk(pre.consumed)
    IN  r.top < Len(input) =>
          (r.state = "Success" /\ r.type = tok.type /\ r.len = tok.len)

(* C3: a call on a window of at least four bytes reads no byte at an index *)
(* at or above the filled size, measured from the window start.            *)
C3_NoReadPastWindow == Called4 => hi < pre.sz

(* C4: the driver eventually stops with End or Fail (or leaves the part of *)
(* the run the model follows).                                             *)
C4_DriverTerminates ==
  <>(\/ (pc = "exit" /\ s \in {"End", "Fail"})
     \/ pc = "undefined"
     \/ consumed > MaxConsumed)

(* C5: an Identifier or Whitespace run ends at the first byte from position *)
(* 1 on that fails the category predicate, which is not consumed; it is     *)
(* Undecided exactly when no byte of the window fails it.                   *)
C5_RunLength ==
  (Called4 /\ First \in IdentStartBytes \cup SpaceBytes) =>
    LET run == IF First \in IdentStartBytes THEN IdentBytes ELSE SpaceBytes
        stop == {i \in 1..(pre.sz - 1) : W(i) \notin run}
    IN  IF stop = {}
        THEN s = "Undecided"
        ELSE /\ s = "Success"
             /\ tok.len = MinOf(stop)
             /\ tok.type = (IF First \in IdentStartBytes THEN "Identifier" ELSE "Whitespace")

C5_Witness ==
  /\ Called4 /\ First \in IdentStartBytes
  /\ s = "Success" /\ tok.len = 5 /\ pre.sz > 5

(* C6: a String, Character or Directive ends at the first terminator from  *)
(* position 1 on that follows an even number of consecutive backslashes;   *)
(* the length includes the quote and excludes the newline; Undecided when  *)
(* the window holds no such terminator.                                    *)
C6_EscapedTerminator ==
  (Called4 /\ First \in {DQUOTE, SQUOTE, HASH}) =>
    LET termn == IF First = HASH THEN LF ELSE First
        plus == IF First = HASH THEN 0 ELSE 1
        ends == Ends(termn, 1)
    IN  IF ends = {}
        THEN s = "Undecided"
        ELSE s = "Success" /\ tok.len = MinOf(ends) + plus

C6_Witness ==
  /\ Called4 /\ First = DQUOTE /\ pre.sz >= 5
  /\ W(1) = LOWER_A /\ W(2) = BACKSLASH /\ W(3) = DQUOTE /\ W(4) = DQUOTE
  /\ s = "Success" /\ tok.len = 5

(* C7: a comment is one Punctuation token whose length is the index of the *)
(* first unescaped newline at a position from 2 on, Undecided when there is *)
(* none; '/' before '=' has length 2 and before any other byte length 1.    *)
C7_Comment ==
  (Called4 /\ First = SLASH) =>
    IF W(1) = SLASH
    THEN LET ends == Ends(LF, 2)
         IN  IF ends = {}
             THEN s = "Undecided"
             ELSE s = "Success" /\ tok.type = "Punctuation" /\ tok.len = MinOf(ends)
    ELSE s = "Success" /\ tok.type = "Punctuation"
           /\ tok.len = (IF W(1) = EQ THEN 2 ELSE 1)

(* The rule table of the punctuation grammar, 0 where it has no rule. *)
RuleTable(a, b, c) ==
  IF a \in {AMP, LT, GT, PIPE, PLUS} /\ b = a
  THEN (IF a \in {LT, GT} /\ c = EQ THEN 3 ELSE 2)
  ELSE IF a \in {CARET, EQ, STAR, PERCENT, BANG, AMP, LT, GT, PIPE, PLUS}
  THEN (IF b = EQ THEN 2 ELSE 1)
  ELSE IF a = QUEST THEN (IF b = COLON THEN 2 ELSE 1)
  ELSE IF a = DOT THEN (IF b = DOT /\ c = DOT THEN 3 ELSE 1)
  ELSE IF a \in {LPAREN, RPAREN, LBRACKET, RBRACKET, LBRACE, RBRACE,
                 COMMA, SEMI, COLON, TILDE}
  THEN 1
  ELSE 0

(* C8: for every punctuation byte but '-' and '/', the token is Punctuation *)
(* with the length the rule table gives for the first three bytes.          *)
C8_RuleTable ==
  (Called4 /\ First \in PunctuationBytes \ {MINUS, SLASH}) =>
    /\ ~ub
    /\ s = "Success"
    /\ tok.type = "Punctuation"
    /\ tok.len = RuleTable(W(0), W(1), W(2))

(* C9 as stated: '-' has length 2 before '>' or '=', and 1 before every    *)
(* other byte, '-' included.                                               *)
C9_MinusNotDoubled ==
  (Called4 /\ First = MINUS) =>
    s = "Success" /\ tok.len = (IF W(1) \in {GT, EQ} THEN 2 ELSE 1)

(* C9 amended: '-' has length 2 before '>', '=' or another '-', and 1       *)
(* before every other byte.                                                 *)
C9_MinusLength ==
  (Called4 /\ First = MINUS) =>
    /\ s = "Success"
    /\ tok.type = "Punctuation"
    /\ tok.len = (IF W(1) \in {GT, EQ, MINUS} THEN 2 ELSE 1)

C9_Witness ==
  /\ Called4 /\ First = MINUS /\ W(1) = MINUS
  /\ s = "Success" /\ tok.len = 2

(* C10: for every byte the classifier calls Punctuation, pi has a case: the *)
(* unreachable default of pi is never reached.                              *)
C10_AlphabetsInSync ==
  (Called4 /\ First \in PunctuationBytes) => ~ub

DigitBytes == DIGIT0..DIGIT9
ClassBytes ==
  {DQUOTE, SQUOTE, HASH} \cup DigitBytes \cup SpaceBytes \cup IdentStartBytes
    \cup PunctuationBytes

(* C11: on a window of at least four bytes lex returns End exactly when the *)
(* first byte is \0, and Fail exactly when the first byte is not \0 and     *)
(* starts none of the seven classes.                                        *)
C11_EndAndFail ==
  Called4 =>
    /\ (s = "End") <=> (First = NUL)
    /\ (s = "Fail") <=> (First # NUL /\ First \notin ClassBytes)

(* C12: when lex returns Fail for an unrecognized byte, the caller's token *)
(* carries the category Undefined, whatever it held before the call.       *)
C12_FailTokenCategory ==
  (pre.called /\ s = "Fail" /\ ~ub) => tok.type = "Undefined"

(* C13: right after lex returned Undecided the filled size is unchanged,   *)
(* the window starts at the start of the storage, and it holds the bytes   *)
(* of the window before the call, in the same order.                       *)
C13_UndecidedKeepsPrefix ==
  (pre.called /\ s = "Undecided" /\ pc = "refill") =>
    /\ sz = pre.sz
    /\ off = 0
    /\ \A i \in 0..(pre.sz - 1) : back_buf[i] = W(i)

C13_Witness ==
  /\ pre.called /\ s = "Undecided" /\ pc = "refill"
  /\ pre.off > 0 /\ pre.sz >= 4
  /\ \E i \in 0..(pre.sz - 1) : W(i) # W(0)

(* C14: dispatch is only ever entered with a filled size of at least 4: a  *)
(* call with fewer bytes reads nothing, returns Undecided and leaves the   *)
(* token as it was.                                                        *)
C14_NoAttemptBelow4 ==
  pre.called =>
    /\ (hi # NULLPTR) => pre.sz >= 4
    /\ (pre.sz < 4) => (s = "Undecided" /\ hi = NULLPTR /\ ~ub /\ tok = pre.tok)

C14_Witness ==
  /\ pre.called /\ pre.sz = 3 /\ pc = "refill"
  /\ pre.tok.type = "Identifier" /\ tok.type = "Identifier"

(* C15: on a tau window of at least four bytes (a String, Character or     *)
(* Directive window, or a comment of six bytes or more, whose tau window   *)
(* starts two bytes in) the outcome and the length are those of the escape  *)
(* tracking loop run alone from offset 1.                                   *)
C15_FastPathsAgree ==
  /\ (Called4 /\ First \in {DQUOTE, SQUOTE, HASH}) =>
       LET r == tau_loop(1, FALSE, 0, pre.sz, pre.win, 0,
                         IF First = DQUOTE THEN "String"
                         ELSE IF First = SQUOTE THEN "Character" ELSE "Directive",
                         IF First = HASH THEN 0 ELSE 1,
                         IF First = HASH THEN LF ELSE First)
       IN  s = r.state /\ tok.type = r.type /\ tok.len = r.len
  /\ (pre.called /\ pre.sz >= 6 /\ First = SLASH /\ W(1) = SLASH) =>
       LET r == tau_loop(1, FALSE, 0, pre.sz - 2, pre.win, 2, "Punctuation", 2, LF)
       IN  s = r.state /\ tok.type = r.type /\ tok.len = r.len

C15_Witness ==
  /\ Called4 /\ First = DQUOTE
  /\ W(1) = BACKSLASH /\ W(2) = BACKSLASH /\ W(3) = DQUOTE
  /\ s = "Success" /\ tok.len = 4

(* C16: a Number is the maximal run of decimal digits from the window      *)
(* start, the first other byte is not consumed; Undecided exactly when     *)
(* every byte of the window is a digit; never Fail.                        *)
C16_DigitRun ==
  (Called4 /\ First \in DigitBytes) =>
    LET stop == {i \in 1..(pre.sz - 1) : W(i) \notin DigitBytes}
    IN  IF stop = {}
        THEN s = "Undecided"
        ELSE s = "Success" /\ tok.type = "Number" /\ tok.len = MinOf(stop)

C16_Witness ==
  /\ Called4 /\ First \in DigitBytes
  /\ W(1) \in DigitBytes /\ W(2) \in DigitBytes /\ W(3) \notin DigitBytes
  /\ s = "Success" /\ tok.len = 3

(* C17: a refill that pads (fewer than four bytes after the read) leaves a *)
(* window in which every index holds a real unconsumed byte or a \0 the    *)
(* padding loop wrote.                                                     *)
C17_PaddedWindowClean ==
  [][(pc = "refill" /\ pc' = "lex" /\ sz + (pos' - pos) < 4) =>
       \A i \in 0..(sz' - 1) :
          \/ i < sz + (pos' - pos)
          \/ (i < 4 /\ back_buf'[i] = NUL)]_vars

(* C18: a Success carries a length of at least 1 and at most the filled    *)
(* size of its call.                                                       *)
C18_LengthWithinWindow ==
  (pre.called /\ s = "Success" /\ ~ub) => (tok.len >= 1 /\ tok.len <= pre.sz)

(* C19: a call that returns Fail or End leaves the window start, the filled *)
(* size and the storage as they were, and a call made after Fail or End     *)
(* without a refill returns the same outcome again.                         *)
C19_FailEndAbsorbing ==
  [][(pre'.called /\ s' \in {"Fail", "End"}) =>
       /\ off' = off
       /\ sz' = sz
       /\ back_buf' = back_buf
       /\ (pc = "exit" => s' = s)]_vars

C19_Witness ==
  /\ recalls = MaxRecalls /\ s = "Fail" /\ pc = "exit"
  /\ pre.off > 0 /\ pre.tok.len > 0

====
